---- MODULE Spec2Model ----
(***************************************************************************)
(* Model of streamlit_app.py (NewsGrader Pro): the "Run Audit" script run, *)
(* its manual SSE decode loop over client.research(stream=True), and the   *)
(* finalization / display of the accumulated report.                       *)
(*                                                                         *)
(* Text is modelled as a sequence of tokens; every token stands for a      *)
(* fixed fragment of text.  The transport yields each line the server      *)
(* sends as one chunk or in pieces: a chunk boundary may fall between any  *)
(* two tokens of a line.  Chunks that span a line terminator are left out. *)
(***************************************************************************)
EXTENDS Integers, Sequences, FiniteSets, TLC

(* ------------------------------ bounds -------------------------------- *)
\* number of logical lines the server sends in one run
MaxLines == 4
\* number of chunk boundaries of one run that fall inside a logical line
MaxCuts == 1

(* ------------------------------ tokens -------------------------------- *)
EV == "event:"
DT == "data:"
NL == "\n"
SP == " "
CHUNK == "chat.completion.chunk"
OTHER_EVENT == "research.step"

\* wire fragments of a text content delta
TEXT_OPEN == "{\"choices\":[{\"delta\":{\"content\":\""
TEXT_CLOSE == "\"}}]}"

\* whole JSON bodies of the other payload shapes
B_EMPTY == "{}"
B_NOCHOICE == "{\"choices\":[]}"
B_OBJ == "{\"choices\":[{\"delta\":{\"content\":{\"letter_grade\":\"A\"}}}]}"
B_PLAN == "{\"choices\":[{\"delta\":{\"step_details\":{\"type\":\"research_plan\",\"step\":\"p\"}}}]}"
B_SEARCH == "{\"choices\":[{\"delta\":{\"step_details\":{\"type\":\"research\",\"step\":\"m\"}}}]}"
B_THINK == "{\"choices\":[{\"delta\":{\"step_details\":{\"type\":\"think\",\"step\":\"t\"}}}]}"
B_DONE == "[DONE]"

\* fragments of report text.  W_LBKV is LBKV as it stands inside a JSON string
\* (quotes escaped); the other fragments need no escaping.
W_LBKV == "{\\\"letter_grade\\\":\\\"B\\\""
LBKV == "{\"letter_grade\":\"B\""
RB == "}"
LIST1 == "[1]"
\* the markdown fence: three backquotes followed by json, and three backquotes
FJ == "<fence>json"
F == "<fence>"

Whitespace == {SP, NL}

(* --------------------------- string helpers --------------------------- *)
\* str.strip(): drop leading and trailing whitespace
strip(s) ==
    LET idx == {i \in 1..Len(s) : s[i] \notin Whitespace}
    IN  IF idx = {} THEN <<>>
        ELSE LET lo == CHOOSE i \in idx : \A j \in idx : i <= j
                 hi == CHOOSE i \in idx : \A j \in idx : i >= j
             IN  SubSeq(s, lo, hi)

\* str.startswith(prefix) for a one-token prefix
startswith(s, prefix) == Len(s) >= 1 /\ s[1] = prefix

\* line.split(prefix, 1)[1].strip() for a line that starts with prefix
after_prefix(s) == strip(Tail(s))

(* ------------------------------- JSON --------------------------------- *)
\* Python values are records of one shape; t is the Python type.
NoStep == [keys |-> {}, type |-> "", step |-> ""]
NoContent == [t |-> "none", s |-> <<>>]
\* a dict used as delta; bound = FALSE is the name delta before any assignment
EmptyDelta == [bound |-> TRUE, keys |-> {}, content |-> NoContent, step |-> NoStep]
Unbound == [bound |-> FALSE, keys |-> {}, content |-> NoContent, step |-> NoStep]
ContentDelta(c) == [EmptyDelta EXCEPT !.keys = {"content"}, !.content = c]
StepDelta(type, step) ==
    [EmptyDelta EXCEPT !.keys = {"step_details"},
                       !.step = [keys |-> {"type", "step"}, type |-> type, step |-> step]]

None == [t |-> "None", keys |-> {}, choices |-> <<>>, letter_grade |-> ""]
Invalid == [None EXCEPT !.t = "invalid"]
Dict(keys) == [None EXCEPT !.t = "dict", !.keys = keys]
Payload(choices) == [Dict({"choices"}) EXCEPT !.choices = choices]
Choice(delta) == [keys |-> {"delta"}, delta |-> delta]
EmptyChoice == [keys |-> {}, delta |-> EmptyDelta]

\* tokens that may stand inside a JSON string, and their decoded text
StringTokens == {W_LBKV, RB, LIST1, B_EMPTY, FJ, F}
unescape(tok) == IF tok = W_LBKV THEN LBKV ELSE tok

\* json.loads(s); Invalid stands for json.JSONDecodeError
json_loads(s) ==
    IF Len(s) = 1 THEN
        CASE s[1] = B_EMPTY -> Dict({})
          [] s[1] = B_NOCHOICE -> Payload(<<>>)
          [] s[1] = B_OBJ -> Payload(<<Choice(ContentDelta([t |-> "dict", s |-> <<>>]))>>)
          [] s[1] = B_PLAN -> Payload(<<Choice(StepDelta("research_plan", "p"))>>)
          [] s[1] = B_SEARCH -> Payload(<<Choice(StepDelta("research", "m"))>>)
          [] s[1] = B_THINK -> Payload(<<Choice(StepDelta("think", "t"))>>)
          [] s[1] = LIST1 -> [None EXCEPT !.t = "list"]
          [] OTHER -> Invalid
    ELSE IF Len(s) >= 2 /\ s[1] = TEXT_OPEN /\ s[Len(s)] = TEXT_CLOSE
            /\ \A i \in 2..(Len(s) - 1) : s[i] \in StringTokens THEN
        Payload(<<Choice(ContentDelta(
            [t |-> "str", s |-> [i \in 1..(Len(s) - 2) |-> unescape(s[i + 1])]]))>>)
    ELSE IF s = <<LBKV, RB>> THEN
        [Dict({"letter_grade"}) EXCEPT !.letter_grade = "B"]
    ELSE Invalid

\* bool(value)
truthy(v) ==
    CASE v.t = "dict" -> v.keys # {}
      [] v.t = "list" -> TRUE
      [] OTHER -> FALSE

(* --------------------------- the decode loop -------------------------- *)
\* current_event_type = None
NoEvent == <<"None">>

\* the names the loop body reads and writes, and the exception it raised
\* ("" for none)
LoopState(etype, last, d, buf, prog) ==
    [etype |-> etype, last |-> last, delta |-> d, buf |-> buf, prog |-> prog, exc |-> ""]

raise(st, e) == [st EXCEPT !.exc = e]

\* status.write(...) of a progress line
write(st, kind, text) == [st EXCEPT !.prog = Append(@, [kind |-> kind, text |-> text])]

\* a loop body that lets the parse error of a data: line escape
skip_malformed_raises(st) == raise(st, "JSONDecodeError")

\* except: continue
skip_malformed(st) == st

\* a loop body that takes content from frames of every event type
is_content_event_any(etype) == TRUE

\* if current_event_type == "chat.completion.chunk"
is_content_event(etype) == etype = <<CHUNK>>

\* full_json_buffer += content_chunk
append_content(st, c) ==
    IF c.t = "str" THEN [st EXCEPT !.buf = @ \o c.s] ELSE raise(st, "TypeError")

\* A. Handle Final Content
handle_content(st, data) ==
    IF data.t # "dict" THEN raise(st, "AttributeError")
    ELSE LET choices == IF "choices" \in data.keys THEN data.choices ELSE <<EmptyChoice>>
         IN  IF Len(choices) = 0 THEN raise(st, "IndexError")
             ELSE LET d == IF "delta" \in choices[1].keys THEN choices[1].delta
                                                           ELSE EmptyDelta
                      st1 == [st EXCEPT !.delta = d]
                  IN  IF "content" \in d.keys THEN append_content(st1, d.content)
                                              ELSE st1

\* B. Handle Research Steps: reads the name delta, which only branch A assigns
handle_steps(st) ==
    IF ~st.delta.bound THEN raise(st, "NameError")
    ELSE IF "step_details" \in st.delta.keys THEN
        LET step == st.delta.step
            step_type == IF "type" \in step.keys THEN step.type ELSE "None"
        IN  CASE step_type = "research_plan" ->
                    write(st, "Plan", IF "step" \in step.keys THEN step.step ELSE "Planning...")
              [] step_type = "research" ->
                    LET msg == IF "step" \in step.keys THEN step.step ELSE ""
                    IN  IF msg # st.last THEN [write(st, "Searching", msg) EXCEPT !.last = msg]
                                         ELSE st
              [] step_type = "think" ->
                    write(st, "Thinking", IF "step" \in step.keys THEN step.step ELSE "")
              [] OTHER -> st
    ELSE st

\* the body of "for chunk in response_stream" for one chunk
process_chunk(st, chunk) ==
    LET line == strip(chunk)
    IN  IF line = <<>> THEN st
        ELSE IF startswith(line, EV) THEN [st EXCEPT !.etype = after_prefix(line)]
        ELSE IF startswith(line, DT) THEN
            LET data == json_loads(after_prefix(line))
            IN  IF data.t = "invalid" THEN skip_malformed(st)
                ELSE IF is_content_event(st.etype) THEN handle_content(st, data)
                ELSE handle_steps(st)
        ELSE st

(* ------------------------- the report parser -------------------------- *)
\* re.search(r"```json\s*(.*?)\s*```", text, re.DOTALL): the text between the
\* first opening fence and the first fence after it, whitespace trimmed;
\* "no match" when there is none.  The closing pattern also matches the
\* first three characters of another opening fence.
fence_match(text) ==
    LET opens == {i \in 1..Len(text) : text[i] = FJ}
    IN  IF opens = {} THEN [found |-> FALSE, group |-> <<>>]
        ELSE LET i == CHOOSE a \in opens : \A b \in opens : a <= b
                 closes == {j \in (i + 1)..Len(text) : text[j] \in {F, FJ}}
             IN  IF closes = {} THEN [found |-> FALSE, group |-> <<>>]
                 ELSE LET j == CHOOSE a \in closes : \A b \in closes : a <= b
                      IN  [found |-> TRUE, group |-> strip(SubSeq(text, i + 1, j - 1))]

clean_and_parse_json(raw_text) ==
    IF raw_text = <<>> THEN None
    ELSE LET m == fence_match(raw_text)
             text == IF m.found THEN m.group ELSE raw_text
             v == json_loads(text)
         IN  IF v.t = "invalid" THEN None ELSE v

\* grade_map.get(grade, ("#95a5a6", "Unknown"))[1]
grade_label(grade) ==
    CASE grade = "A" -> "High Accuracy"
      [] grade = "B" -> "Mostly Accurate"
      [] grade = "C" -> "Mixed Accuracy"
      [] grade = "D" -> "Questionable"
      [] grade = "F" -> "Misleading/False"
      [] OTHER -> "Unknown"

(* ------------------------- the event-stream text ---------------------- *)
Blank == <<NL>>
EventLine(type) == <<EV, SP, type, NL>>
DataLine(body) == <<DT>> \o body \o <<NL>>
TextBody(c) == <<TEXT_OPEN>> \o c \o <<TEXT_CLOSE>>

\* the report text fragments a text content delta may carry
Contents == {<<W_LBKV>>, <<RB>>, <<LIST1>>, <<B_EMPTY>>, <<FJ, W_LBKV, RB, F>>}

\* the one-token payload bodies
Bodies == {B_EMPTY, B_NOCHOICE, B_OBJ, B_PLAN, B_SEARCH, B_THINK, B_DONE}

\* the logical lines the server may send
Lines ==
    {Blank, EventLine(CHUNK), EventLine(OTHER_EVENT)}
    \cup {DataLine(<<b>>) : b \in Bodies}
    \cup {DataLine(TextBody(c)) : c \in Contents}

\* the form inputs
NonAscii == {"e-acute"}
Keys == {<<>>, <<"k", "e-acute", SP>>}
Urls == {<<>>, <<"u">>}

(* ------------------------------- state -------------------------------- *)
VARIABLES
    pc,                 \* position of the script run
    api_key, url_input, \* the sidebar and form inputs of the run
    clean_key, client,  \* the cleaned key; whether TavilyClient was constructed
    research_calls,     \* number of client.research calls of the run
    wire,               \* rest of the line being yielded, when a chunk ended inside it
    nlines, cuts,       \* lines sent; chunk boundaries that fell inside a line
    chunk,              \* the chunk the transport yielded last
    current_event_type, last_step_msg, delta,
    full_json_buffer, final_data,
    progress,           \* the status.write lines, in order
    status,             \* state of the st.status container
    errors,             \* the st.error messages, in order
    shown,              \* what the display section rendered
    ref,                \* reference decoder: the loop body applied to whole lines
    done_seen           \* a data: [DONE] line has been processed

vars == <<pc, api_key, url_input, clean_key, client, research_calls, wire, nlines,
          cuts, chunk, current_event_type, last_step_msg, delta, full_json_buffer,
          final_data, progress, status, errors, shown, ref, done_seen>>

input_vars == <<api_key, url_input>>
client_vars == <<clean_key, client, research_calls>>
wire_vars == <<wire, nlines, cuts, ref, done_seen>>
loop_vars == <<current_event_type, last_step_msg, delta, full_json_buffer, progress>>
out_vars == <<final_data, status, errors, shown>>

NothingShown == [kind |-> "none", grade |-> "", label |-> "", raw |-> <<>>]
RefInit == [partial |-> <<>>, st |-> LoopState(NoEvent, "", Unbound, <<>>, <<>>)]

\* a fresh script run: the form is shown, nothing is submitted
Init ==
    /\ pc = "form"
    /\ api_key = <<>> /\ url_input = <<>>
    /\ clean_key = <<>> /\ client = FALSE /\ research_calls = 0
    /\ wire = <<>> /\ nlines = 0 /\ cuts = 0 /\ chunk = <<>>
    /\ current_event_type = NoEvent /\ last_step_msg = "" /\ delta = Unbound
    /\ full_json_buffer = <<>> /\ final_data = None
    /\ progress = <<>> /\ status = "none" /\ errors = <<>> /\ shown = NothingShown
    /\ ref = RefInit /\ done_seen = FALSE

(* ------------------------------ actions ------------------------------- *)
\* st.error(...): the message, and the text of the exception it quotes
error(msg, detail) == [msg |-> msg, detail |-> detail]

\* the user fills the inputs and presses Run Audit
Submit ==
    /\ pc = "form"
    /\ \E k \in Keys, u \in Urls : api_key' = k /\ url_input' = u
    /\ pc' = "submitted"
    /\ UNCHANGED <<client_vars, wire_vars, chunk, loop_vars, out_vars>>

\* if not api_key: st.error(...); st.stop()
CheckKey ==
    /\ pc = "submitted"
    /\ IF api_key = <<>>
         THEN errors' = Append(errors, error("Please provide a Tavily API Key.", "")) /\ pc' = "stopped"
         ELSE errors' = errors /\ pc' = "key_checked"
    /\ UNCHANGED <<input_vars, client_vars, wire_vars, chunk, loop_vars, final_data, status, shown>>

\* a URL check that reports the empty URL and goes on
CheckUrl_NoStop ==
    /\ pc = "key_checked"
    /\ errors' = IF url_input = <<>> THEN Append(errors, error("Please provide a URL.", ""))
                                     ELSE errors
    /\ pc' = "url_checked"
    /\ UNCHANGED <<input_vars, client_vars, wire_vars, chunk, loop_vars, final_data, status, shown>>

\* if not url_input: st.error(...); st.stop()
CheckUrl ==
    /\ pc = "key_checked"
    /\ IF url_input = <<>>
         THEN errors' = Append(errors, error("Please provide a URL.", "")) /\ pc' = "stopped"
         ELSE errors' = errors /\ pc' = "url_checked"
    /\ UNCHANGED <<input_vars, client_vars, wire_vars, chunk, loop_vars, final_data, status, shown>>

\* clean_key.encode("ascii", "ignore").decode("ascii")
ascii_ignore(s) == SelectSeq(s, LAMBDA tok : tok \notin NonAscii)

\* clean the key and construct the client (the constructor is library code;
\* it is taken to return)
MakeClient ==
    /\ pc = "url_checked"
    /\ clean_key' = ascii_ignore(strip(api_key))
    /\ client' = TRUE
    /\ pc' = "client"
    /\ UNCHANGED <<input_vars, research_calls, wire_vars, chunk, loop_vars, out_vars>>

\* full_json_buffer = ""; final_data = None; with st.status(...)
BeginStreaming ==
    /\ pc = "client"
    /\ full_json_buffer' = <<>>
    /\ final_data' = None
    /\ status' = "running"
    /\ pc' = "connecting"
    /\ UNCHANGED <<input_vars, client_vars, wire_vars, chunk, current_event_type,
                   last_step_msg, delta, progress, errors, shown>>

\* the script run ends (st.stop(), an uncaught exception, or the last line):
\* its names are gone; what it rendered stays on the page
script_ends ==
    /\ clean_key' = <<>>
    /\ wire' = <<>> /\ nlines' = 0 /\ cuts' = 0
    /\ current_event_type' = NoEvent /\ last_step_msg' = "" /\ delta' = Unbound
    /\ full_json_buffer' = <<>> /\ final_data' = None
    /\ ref' = RefInit /\ done_seen' = FALSE

\* an except branch without st.stop(): the script goes on to finalization
stream_error_goes_on(e) ==
    /\ errors' = Append(errors, error("Stream Error", e))
    /\ pc' = "completed"
    /\ script_ends

\* except Exception as e: st.error(f"Stream Error: ..."); st.stop()
stream_error(e) ==
    /\ errors' = Append(errors, error("Stream Error", e))
    /\ pc' = "failed"
    /\ script_ends

\* client.research(...) returns the stream
ResearchReturns ==
    /\ pc = "connecting"
    /\ research_calls' = research_calls + 1
    /\ current_event_type' = NoEvent
    /\ last_step_msg' = ""
    /\ pc' = "consuming"
    /\ UNCHANGED <<input_vars, clean_key, client, wire_vars, chunk, delta,
                   full_json_buffer, progress, out_vars>>

\* client.research(...) raises
ResearchRaises ==
    /\ pc = "connecting"
    /\ research_calls' = research_calls + 1
    /\ stream_error("research")
    /\ UNCHANGED <<input_vars, client, chunk, progress, status, shown>>

\* the reference decoder: buffers the text, applies the loop body to each
\* complete line, stops at the first exception
RECURSIVE feed(_, _)
feed(r, tokens) ==
    IF tokens = <<>> THEN r
    ELSE LET text == Append(r.partial, Head(tokens))
         IN  IF Head(tokens) = NL
             THEN feed([partial |-> <<>>,
                        st |-> IF r.st.exc = "" THEN process_chunk(r.st, text) ELSE r.st],
                       Tail(tokens))
             ELSE feed([r EXCEPT !.partial = text], Tail(tokens))

is_done_line(c) == strip(c) = <<DT, B_DONE>>

\* the chunk the transport yields when the server sends line (<<>>: the rest
\* of the line it is in the middle of) and the chunk ends after k tokens
chunk_of(line, k) == SubSeq(wire \o line, 1, k)

\* one iteration of "for chunk in response_stream": the transport yields a
\* whole line, or a piece of one, and the loop body runs on it
NextChunk(line, k) ==
    /\ pc = "consuming"
    /\ IF wire = <<>> THEN line # <<>> /\ nlines < MaxLines ELSE line = <<>>
    /\ LET avail == wire \o line
           c == chunk_of(line, k)
           st == process_chunk(LoopState(current_event_type, last_step_msg, delta,
                                         full_json_buffer, progress), c)
       IN  /\ k \in 1..Len(avail)
           /\ k < Len(avail) => cuts < MaxCuts
           /\ chunk' = c
           /\ progress' = st.prog
           /\ IF st.exc # "" THEN stream_error(st.exc)
              ELSE /\ pc' = "consuming"
                   /\ errors' = errors
                   /\ nlines' = IF line = <<>> THEN nlines ELSE nlines + 1
                   /\ cuts' = IF k < Len(avail) THEN cuts + 1 ELSE cuts
                   /\ wire' = SubSeq(avail, k + 1, Len(avail))
                   /\ current_event_type' = st.etype
                   /\ last_step_msg' = st.last
                   /\ delta' = st.delta
                   /\ full_json_buffer' = st.buf
                   /\ ref' = feed(ref, c)
                   /\ done_seen' = (done_seen \/ is_done_line(c))
                   /\ UNCHANGED <<clean_key, final_data>>
    /\ UNCHANGED <<input_vars, client, research_calls, status, shown>>

Chunk == \E line \in Lines \cup {<<>>} : \E k \in 1..(Len(wire) + Len(line)) : NextChunk(line, k)

\* the iterator raises (the connection drops)
StreamRaises ==
    /\ pc = "consuming"
    /\ stream_error("transport")
    /\ UNCHANGED <<input_vars, client, research_calls, chunk, progress, status, shown>>

\* the iterator is exhausted: status.update(label="Audit Complete!", state="complete")
StreamEnds ==
    /\ pc = "consuming"
    /\ wire = <<>>
    /\ status' = "complete"
    /\ pc' = "completed"
    /\ UNCHANGED <<input_vars, client_vars, wire_vars, chunk, loop_vars, final_data, errors, shown>>

\* final_data.get(key, default) on the report
get_grade(v) == IF "letter_grade" \in v.keys THEN v.letter_grade ELSE "C"

\* if full_json_buffer: final_data = clean_and_parse_json(full_json_buffer)
parsed_report(buffer, initial) ==
    IF buffer # <<>> THEN clean_and_parse_json(buffer) ELSE initial

\* the code after the streaming block: parse the buffer; if final_data:
\* render the report (final_data.get raises, outside every try, on a value
\* that is no dict) else: st.error(...); st.code(full_json_buffer)
Finalize ==
    /\ pc = "completed"
    /\ LET report == parsed_report(full_json_buffer, final_data)
       IN  IF truthy(report)
           THEN IF report.t = "dict"
                THEN /\ shown' = [kind |-> "report", grade |-> get_grade(report),
                                  label |-> grade_label(get_grade(report)), raw |-> <<>>]
                     /\ pc' = "rendered"
                     /\ errors' = errors
                ELSE /\ pc' = "crashed"
                     /\ UNCHANGED <<shown, errors>>
           ELSE /\ errors' = Append(errors, error("Failed to parse the final report.", ""))
                /\ shown' = [NothingShown EXCEPT !.kind = "debug", !.raw = full_json_buffer]
                /\ pc' = "parse_error"
    /\ script_ends
    /\ UNCHANGED <<input_vars, client, research_calls, chunk, progress, status>>

\* the run is over; the next interaction re-executes the script from the top
Terminal == {"stopped", "failed", "rendered", "parse_error", "crashed"}

Rerun ==
    /\ pc \in Terminal
    /\ pc' = "form"
    /\ api_key' = <<>> /\ url_input' = <<>>
    /\ clean_key' = <<>> /\ client' = FALSE /\ research_calls' = 0
    /\ wire' = <<>> /\ nlines' = 0 /\ cuts' = 0 /\ chunk' = <<>>
    /\ current_event_type' = NoEvent /\ last_step_msg' = "" /\ delta' = Unbound
    /\ full_json_buffer' = <<>> /\ final_data' = None
    /\ progress' = <<>> /\ status' = "none" /\ errors' = <<>> /\ shown' = NothingShown
    /\ ref' = RefInit /\ done_seen' = FALSE

Next ==
    \/ Submit
    \/ CheckKey
    \/ CheckUrl
    \/ MakeClient
    \/ BeginStreaming
    \/ ResearchReturns
    \/ ResearchRaises
    \/ Chunk
    \/ StreamRaises
    \/ StreamEnds
    \/ Finalize
    \/ Rerun

Spec == Init /\ [][Next]_vars

(* ------------------------------ claims -------------------------------- *)
\* the step yields a chunk and runs the loop body on it; chunk' is that chunk
Yields ==
    \E line \in Lines \cup {<<>>} : \E k \in 1..(Len(wire) + Len(line)) :
        chunk_of(line, k) = chunk' /\ NextChunk(line, k)

\* the chunk is a data: line / one whose body is (not) valid JSON
IsDataLine(c) == startswith(strip(c), DT)
PayloadOf(c) == json_loads(after_prefix(strip(c)))
IsMalformedData(c) == IsDataLine(c) /\ PayloadOf(c).t = "invalid"
IsJsonData(c) == IsDataLine(c) /\ PayloadOf(c).t # "invalid"

\* the delta the frame's own payload carries ({} when it carries none)
OwnDelta(c) ==
    LET d == PayloadOf(c)
    IN  IF d.t = "dict" /\ "choices" \in d.keys /\ Len(d.choices) > 0
           /\ "delta" \in d.choices[1].keys
        THEN d.choices[1].delta ELSE EmptyDelta

StreamErrors(es) == Cardinality({i \in 1..Len(es) : es[i].msg = "Stream Error"})

\* C1: however the text is cut into chunks, a run that completes ends with
\* the text buffer and the progress lines that decoding the same text line by
\* line produces (the reference decoder, when that one raises nothing).
C1_ChunkBoundaryIndependence ==
    (pc = "completed" /\ ref.st.exc = "")
        => (full_json_buffer = ref.st.buf /\ progress = ref.st.prog)

\* C2: a data: line whose body is not valid JSON is dropped: the step that
\* processes it leaves the event type, the last Searching message, the text
\* buffer and the progress lines as they were, reports no error and the
\* loop goes on.
C2_MalformedDataDropped ==
    [][(IsMalformedData(chunk') /\ Yields)
          => (UNCHANGED <<current_event_type, last_step_msg, delta,
                          full_json_buffer, progress, errors>>
              /\ pc' = "consuming")]_vars

\* C2 witness: a malformed data: line has been processed in the middle of a
\* content stream with text already accumulated
C2_Witness ==
    /\ pc = "consuming"
    /\ IsMalformedData(chunk)
    /\ current_event_type = <<CHUNK>>
    /\ full_json_buffer # <<>>

\* C3: the inputs are validated before any network activity: a run stopped at
\* the input checks has reported an error, constructed no client and issued no
\* research call; a run goes past the checks only with a non-empty key and a
\* non-empty URL, so a client exists, and a research call was issued, only
\* after both were checked non-empty.
C3_ValidationBeforeNetwork ==
    /\ pc = "stopped" =>
          (Len(errors) = 1 /\ ~client /\ research_calls = 0
           /\ (api_key = <<>> \/ url_input = <<>>))
    /\ pc \notin {"form", "submitted", "stopped"} => api_key # <<>>
    /\ pc \notin {"form", "submitted", "stopped", "key_checked"} => url_input # <<>>
    /\ (client \/ research_calls > 0) => (api_key # <<>> /\ url_input # <<>>)
    /\ research_calls > 0 => client

\* C3 witness: a run with a key and an empty URL was stopped at the URL check
C3_Witness ==
    /\ pc = "stopped"
    /\ api_key # <<>>
    /\ url_input = <<>>
    /\ errors = <<error("Please provide a URL.", "")>>

\* the frame is a content frame whose content delta is a structured object
IsObjectContent(etype, c) ==
    /\ etype = <<CHUNK>>
    /\ IsJsonData(c)
    /\ "content" \in OwnDelta(c).keys
    /\ OwnDelta(c).content.t = "dict"

\* C4: a chat.completion.chunk frame whose content delta is a structured
\* object does not fail the stream: the step that processes it leaves the
\* loop consuming, with no error reported.
C4_ObjectContentAccepted ==
    [][(IsObjectContent(current_event_type, chunk') /\ Yields)
          => (pc' = "consuming" /\ errors' = errors)]_vars

\* the progress line the frame's own step_details call for, if any
StepKind(type) ==
    CASE type = "research_plan" -> "Plan"
      [] type = "research" -> "Searching"
      [] type = "think" -> "Thinking"
      [] OTHER -> "none"
OwnStepEvents(c) ==
    IF IsJsonData(c) /\ "step_details" \in OwnDelta(c).keys
          /\ StepKind(OwnDelta(c).step.type) # "none"
    THEN <<[kind |-> StepKind(OwnDelta(c).step.type), text |-> OwnDelta(c).step.step]>>
    ELSE <<>>

\* C5: a step that processes a frame, and after which the loop goes on,
\* appends to the progress lines exactly the progress line of that frame's
\* own step_details (Plan, Searching or Thinking with the frame's step text),
\* and nothing when the frame's own payload carries no step_details.
C5_StepDetailsInOrder ==
    [][(Yields /\ pc' = "consuming")
          => progress' = progress \o OwnStepEvents(chunk')]_vars

\* the frame has a JSON payload and is none the loop recognises: it arrives
\* under an event type other than chat.completion.chunk, or it is a
\* chat.completion.chunk payload without choices, with an empty choices list,
\* or with a delta that has neither content nor step_details
IsUnrecognized(etype, c) ==
    /\ IsJsonData(c)
    /\ \/ etype # <<CHUNK>>
       \/ "choices" \notin PayloadOf(c).keys
       \/ Len(PayloadOf(c).choices) = 0
       \/ OwnDelta(c).keys \cap {"content", "step_details"} = {}

\* C6: an unrecognized frame is ignored: the step that processes it leaves
\* the text buffer and the progress lines as they were and the loop goes on.
C6_UnrecognizedIgnored ==
    [][(IsUnrecognized(current_event_type, chunk') /\ Yields)
          => (pc' = "consuming"
              /\ UNCHANGED <<full_json_buffer, progress, errors>>)]_vars

\* C7: once a data: [DONE] line has been processed, no later chunk is
\* processed: a step that yields a chunk, and after which the loop goes on,
\* changes neither the event type, the text buffer nor the progress lines.
C7_SentinelEndsDecoding ==
    [][(done_seen /\ Yields /\ pc' = "consuming")
          => UNCHANGED <<current_event_type, full_json_buffer, progress>>]_vars

\* C8: finalization after a completed stream ends in exactly one of: the
\* rendered report, or the parse error together with the accumulated text
\* as it was accumulated.
C8_ResultOrErrorWithRawText ==
    [][(pc = "completed" /\ pc' # "completed")
          => \/ /\ shown'.kind = "report"
                /\ errors' = errors
             \/ /\ shown'.kind = "debug"
                /\ shown'.raw = full_json_buffer
                /\ errors' = Append(errors, error("Failed to parse the final report.", ""))]_vars

\* C9: the stream consumer's lifecycle.  The research call is issued at most
\* once per run.  The status container becomes complete only from the
\* consuming loop, when the chunk source is exhausted, with no stream error
\* reported.  A stream error is reported exactly when the run fails, and
\* once; a failed run has rendered nothing and does nothing more.  A run
\* that passed the input checks and is over is either complete or failed,
\* never both; a complete or failed run stays so until the next run.
C9_StreamLifecycle ==
    [][/\ research_calls' <= 1
       /\ (status' = "complete" /\ status # "complete")
             => (pc = "consuming" /\ wire = <<>> /\ pc' = "completed"
                 /\ errors' = errors /\ StreamErrors(errors) = 0)
       /\ StreamErrors(errors') > StreamErrors(errors) => pc' = "failed"
       /\ (pc' = "failed" /\ pc # "failed")
             => (pc \in {"connecting", "consuming"} /\ StreamErrors(errors') = 1
                 /\ Len(errors') = 1 /\ status' = "running" /\ shown' = NothingShown)
       /\ pc \in {"failed", "rendered", "parse_error", "crashed"} => pc' = "form"
       /\ status = "complete" => (status' = "complete" \/ pc' = "form")
       /\ pc' \in {"failed", "rendered", "parse_error", "crashed"}
             => ((status' = "complete") # (StreamErrors(errors') = 1))
       /\ pc' \in {"completed", "rendered", "parse_error", "crashed"}
             => (status' = "complete" /\ StreamErrors(errors') = 0)
      ]_vars

\* C9 witness: a run failed in the middle of consumption
C9_Witness ==
    /\ pc = "failed"
    /\ chunk # <<>>
    /\ StreamErrors(errors) = 1
    /\ status = "running"
    /\ research_calls = 1

\* the text a frame adds to the buffer: its content delta when it is a text
\* content frame processed under chat.completion.chunk, nothing otherwise
TextDelta(etype, c) ==
    IF etype = <<CHUNK>> /\ IsJsonData(c) /\ "content" \in OwnDelta(c).keys
          /\ OwnDelta(c).content.t = "str"
    THEN OwnDelta(c).content.s
    ELSE <<>>

\* C10: the text buffer is empty when consumption starts, and every step of
\* the consuming loop yields a chunk and appends to the buffer exactly the
\* text content delta of that frame when the event type is
\* chat.completion.chunk, and nothing otherwise.
C10_BufferAppendOnly ==
    [][pc' = "consuming"
          => IF pc = "consuming"
             THEN Yields /\ full_json_buffer'
                              = full_json_buffer \o TextDelta(current_event_type, chunk')
             ELSE full_json_buffer' = <<>>]_vars

\* C10 witness: text of two frames was accumulated, and a text content frame
\* arriving under another event type has left it as it was
C10_Witness ==
    /\ pc = "consuming"
    /\ current_event_type = <<OTHER_EVENT>>
    /\ Len(full_json_buffer) >= 1
    /\ IsJsonData(chunk)
    /\ "content" \in OwnDelta(chunk).keys
    /\ OwnDelta(chunk).content.t = "str"

====
